---------------------------- MODULE Spec2Model ----------------------------
(***************************************************************************)
(* url_crawler: the /fetch handler (fetch_urls), its fetch units           *)
(* (fetch_single) under the asyncio.Semaphore gate, request validation     *)
(* (FetchRequest.__post_init__) and the content-type allow-list.           *)
(*                                                                         *)
(* Conventions.                                                            *)
(*   - Python strings are sequences of one-character strings, so that      *)
(*     lower(), strip(), split(",") and the substring test are computed.   *)
(*     Exception messages are sequences of such characters and of longer   *)
(*     literal pieces ("timeout: ").                                       *)
(*   - Optional[T] is a sequence of length 0 (None) or 1 (the value).      *)
(*   - Seconds are counted in tenths (timeout 15.0 is 150).                *)
(***************************************************************************)
EXTENDS Integers, Sequences, FiniteSets, TLC

VARIABLES
    allowed,        \* ALLOWED_CONTENT_KEYWORDS, resolved once at import
    payload,        \* the decoded request body handed to fetch_urls
    pc,             \* position of fetch_urls
    request,        \* Optional[FetchRequest] after validation
    concurrency,    \* fetch_urls local: the gate size
    sem_value,      \* asyncio.Semaphore._value
    waiters,        \* asyncio.Semaphore._waiters (FIFO of unit indexes)
    limits,         \* Optional[httpx.Limits] given to the client
    client_timeout, \* Optional[httpx.Timeout] given to the client
    client,         \* "none", "open", "closed"
    upc,            \* position of each fetch unit (index -> string)
    started,        \* fetch_single local `started`, per unit
    result,         \* fetch_single local `result`, per unit
    got,            \* what each unit's client.get ended in, Optional
    ret,            \* value each task returned to gather, Optional
    gets,           \* number of client.get calls issued per unit
    entered,        \* perf_counter() when each unit entered the gated section
    response,       \* Optional[FetchResponse]
    http_error,     \* Optional exception that left fetch_urls
    start_time,     \* fetch_urls local
    results,        \* fetch_urls local: what gather returned
    now,            \* perf_counter(), in milliseconds
    document,       \* parse_html_to_markdown: the parsed html_content
    page_url,       \* parse_html_to_markdown: its argument url
    markdown,       \* parse_html_to_markdown: Optional value returned
    batches,        \* two calls of fetch_urls in one process: their locals
    gates           \* the asyncio.Semaphore objects those calls made

fetch_vars ==
    <<allowed, payload, pc, request, concurrency, sem_value, waiters, limits,
      client_timeout, client, upc, started, result, got, ret, gets, entered,
      response, http_error, start_time, results, now>>

soup_vars == <<document, page_url, markdown>>

pair_vars == <<batches, gates>>

\* what one call of fetch_urls and its units leave alone
aside == <<soup_vars, pair_vars>>

vars == <<fetch_vars, aside>>

None == <<>>
Some(x) == <<x>>
IsNone(o) == o = <<>>
Min(a, b) == IF a <= b THEN a ELSE b
Max(a, b) == IF a >= b THEN a ELSE b

---------------------------------------------------------------------------
(* Strings *)

UpperCase == <<"A","B","C","D","E","F","G","H","I","J","K","L","M",
               "N","O","P","Q","R","S","T","U","V","W","X","Y","Z">>
LowerCase == <<"a","b","c","d","e","f","g","h","i","j","k","l","m",
               "n","o","p","q","r","s","t","u","v","w","x","y","z">>

LowerChar(c) ==
    IF \E i \in 1..26 : UpperCase[i] = c
    THEN LowerCase[CHOOSE i \in 1..26 : UpperCase[i] = c]
    ELSE c

\* str.lower()
Lower(s) == [i \in 1..Len(s) |-> LowerChar(s[i])]

\* `kw in s` for strings
Contains(kw, s) ==
    \E i \in 0..(Len(s) - Len(kw)) : SubSeq(s, i + 1, i + Len(kw)) = kw

RECURSIVE LStrip(_)
LStrip(s) == IF s # <<>> /\ Head(s) = " " THEN LStrip(Tail(s)) ELSE s

RECURSIVE RStrip(_)
RStrip(s) ==
    IF s # <<>> /\ s[Len(s)] = " " THEN RStrip(SubSeq(s, 1, Len(s) - 1)) ELSE s

\* str.strip()
Strip(s) == RStrip(LStrip(s))

\* str.split(","): always at least one piece
RECURSIVE Split(_, _)
Split(s, cur) ==
    IF s = <<>> THEN <<cur>>
    ELSE IF Head(s) = "," THEN <<cur>> \o Split(Tail(s), <<>>)
    ELSE Split(Tail(s), Append(cur, Head(s)))

NonEmptyPiece(p) == Strip(p) # <<>>

\* the generator of ALLOWED_CONTENT_KEYWORDS over one environment value
ParseKeywords(env) ==
    LET kept == SelectSeq(Split(env, <<>>), NonEmptyPiece)
    IN  [i \in 1..Len(kept) |-> Lower(Strip(kept[i]))]

EnvDefaultKeywords == <<"t","e","x","t",",","h","t","m","l",",","x","m","l">>
EnvEmptyKeywords == <<>>
EnvPdfKeywords == <<" ","P","D","F"," ",","," ">>

\* values of URL_CRAWLER_ALLOWED_CONTENT_KEYWORDS the process is started with
EnvKeywordValues == {EnvDefaultKeywords, EnvEmptyKeywords, EnvPdfKeywords}


---------------------------------------------------------------------------
(* Configuration, resolved once at import (lines 30-66) *)

\* an environment variable: unset, or set to text that int()/float() parses
\* (valid) or rejects
EnvUnset == [set |-> FALSE, valid |-> FALSE, value |-> 0]
EnvValue(v) == [set |-> TRUE, valid |-> TRUE, value |-> v]
EnvGarbage == [set |-> TRUE, valid |-> FALSE, value |-> 0]

env_int(env, default, minimum) ==
    IF ~env.set THEN Max(minimum, default)
    ELSE IF ~env.valid THEN default
    ELSE Max(minimum, env.value)

env_float(env, default, minimum) ==
    IF ~env.set THEN Max(minimum, default)
    ELSE IF ~env.valid THEN default
    ELSE Max(minimum, env.value)

\* the environment the process is started in
URL_CRAWLER_DEFAULT_CONCURRENCY == EnvValue(2)
URL_CRAWLER_MAX_CONCURRENCY == EnvValue(3)
URL_CRAWLER_MAX_URLS == EnvValue(3)
URL_CRAWLER_MAX_BODY_BYTES == EnvValue(2)
URL_CRAWLER_MAX_CONNECTIONS == EnvValue(4)
URL_CRAWLER_MAX_KEEPALIVE_CONNECTIONS == EnvGarbage
URL_CRAWLER_CONNECT_TIMEOUT == EnvUnset
URL_CRAWLER_READ_TIMEOUT == EnvUnset

DEFAULT_CONCURRENCY == env_int(URL_CRAWLER_DEFAULT_CONCURRENCY, 10, 1)
MAX_CONCURRENCY ==
    env_int(URL_CRAWLER_MAX_CONCURRENCY, Max(DEFAULT_CONCURRENCY, 64),
            DEFAULT_CONCURRENCY)
MAX_URLS == env_int(URL_CRAWLER_MAX_URLS, 64, 1)
MAX_BODY_BYTES == env_int(URL_CRAWLER_MAX_BODY_BYTES, 5 * 1024 * 1024, 1)
MAX_CONNECTIONS ==
    Max(env_int(URL_CRAWLER_MAX_CONNECTIONS, DEFAULT_CONCURRENCY * 4, 1),
        DEFAULT_CONCURRENCY)
MAX_KEEPALIVE_CONNECTIONS ==
    Max(env_int(URL_CRAWLER_MAX_KEEPALIVE_CONNECTIONS, DEFAULT_CONCURRENCY * 2, 1),
        DEFAULT_CONCURRENCY)
CONNECT_TIMEOUT == env_float(URL_CRAWLER_CONNECT_TIMEOUT, 100, 1)
READ_TIMEOUT == env_float(URL_CRAWLER_READ_TIMEOUT, 150, 1)

---------------------------------------------------------------------------
(* Request validation: FetchRequest.__post_init__ (lines 78-115) *)

UrlPlain == "http://a.test/x"
UrlWiki == "https://en.wikipedia.org/wiki/T"
UrlNoScheme == "a.test/x"
UrlNoNetloc == "http:///x"

\* urllib.parse.urlparse on the URLs of the model: scheme and netloc
urlparse(url) ==
    CASE url = UrlPlain -> [scheme |-> "http", netloc |-> "a.test"]
      [] url = UrlWiki -> [scheme |-> "https", netloc |-> "en.wikipedia.org"]
      [] url = UrlNoNetloc -> [scheme |-> "http", netloc |-> ""]
      [] OTHER -> [scheme |-> "", netloc |-> ""]

\* a value handed to float() or int(): the conversion raises or yields value
Num(v) == [converts |-> TRUE, value |-> v]
NotANumber == [converts |-> FALSE, value |-> 0]

Accepted(req) == [ok |-> TRUE, request |-> req, detail |-> ""]
Rejected(msg) == [ok |-> FALSE, request |-> [urls |-> <<>>, timeout |-> 0,
                   concurrency |-> 0, to_markdown |-> FALSE], detail |-> msg]

\* both ends of the range shut out
TimeoutInRangeExclusive(timeout_value) == 10 < timeout_value /\ timeout_value < 600

\* line 99: 1.0 <= timeout_value <= 60.0
TimeoutInRange(timeout_value) == 10 <= timeout_value /\ timeout_value <= 600

post_init(p) ==
    IF ~p.urls_is_list
    THEN Rejected("urls must be provided as a list of URL strings")
    ELSE LET normalized_urls == p.urls IN
    IF normalized_urls = <<>>
    THEN Rejected("urls must contain at least one URL")
    ELSE IF Len(normalized_urls) > MAX_URLS
    THEN Rejected("urls cannot contain more than MAX_URLS items")
    ELSE IF \E i \in 1..Len(normalized_urls) :
                \/ urlparse(normalized_urls[i]).scheme = ""
                \/ urlparse(normalized_urls[i]).netloc = ""
    THEN Rejected("Invalid URL provided")
    ELSE IF ~p.timeout.converts
    THEN Rejected("timeout must be a number")
    ELSE LET timeout_value == p.timeout.value IN
    IF ~TimeoutInRange(timeout_value)
    THEN Rejected("timeout must be between 1 and 60 seconds")
    ELSE IF p.concurrency # None /\ ~p.concurrency[1].converts
    THEN Rejected("concurrency must be an integer")
    ELSE LET requested_concurrency ==
                 IF p.concurrency = None THEN DEFAULT_CONCURRENCY
                 ELSE p.concurrency[1].value
    IN
    IF ~(1 <= requested_concurrency /\ requested_concurrency <= MAX_CONCURRENCY)
    THEN Rejected("concurrency must be between 1 and MAX_CONCURRENCY")
    ELSE Accepted([urls |-> normalized_urls,
                   timeout |-> timeout_value,
                   concurrency |-> Min(Min(requested_concurrency,
                                           Len(normalized_urls)),
                                       MAX_CONCURRENCY),
                   to_markdown |-> p.to_markdown])

---------------------------------------------------------------------------
(* The transport: what `await client.get(url)` can end in (line 218) *)

\* exception classes: httpx.ConnectTimeout and httpx.ReadTimeout are
\* TimeoutExceptions, a TimeoutException is a TransportError, which is an
\* HTTPError; every class here is an Exception
TimeoutClasses == {"ConnectTimeout", "ReadTimeout"}
HTTPErrorClasses == TimeoutClasses \cup {"ConnectError", "HTTPStatusError"}
ExceptionClasses ==
    HTTPErrorClasses \cup {"ValueError", "ParserRejectedMarkup", "RecursionError"}

Exc(type, msg) == [type |-> type, msg |-> msg]

CtHtml == <<"T","e","x","t","/","H","T","M","L">>
CtPdf == <<"a","p","p","l","i","c","a","t","i","o","n","/","p","d","f">>

\* response bodies, as bytes: "#" is a byte the declared encoding cannot
\* decode, "!" is markup the HTML parser rejects, "{" is markup nested deeper
\* than the Markdown converter's recursion can follow
BodyPlain == <<"h", "#", "!">>
BodyRejected == <<"!", "h">>
BodyDeep == <<"{", "h">>

Resp(status, ctype, body) ==
    [kind |-> "response", status_code |-> status,
     encoding |-> Some("utf-8"), content_type |-> ctype, content |-> body,
     exc |-> Exc("", <<>>)]
Raises(exc) ==
    [kind |-> "raise", status_code |-> 0, encoding |-> None,
     content_type |-> None, content |-> <<>>, exc |-> exc]

\* exceptions client.get raises: a timeout and another transport error;
\* httpx exceptions may carry an empty message
GetExceptions == {Exc("ReadTimeout", <<"timed out">>), Exc("ConnectError", <<>>)}

Responses ==
    {Resp(200, Some(CtHtml), BodyPlain),
     Resp(200, Some(CtHtml), BodyRejected),
     Resp(200, Some(CtHtml), BodyDeep),
     Resp(200, Some(CtPdf), BodyPlain),
     Resp(200, None, BodyPlain),
     Resp(404, Some(CtPdf), BodyPlain)}

Outcomes == Responses \cup {Raises(e) : e \in GetExceptions}

StatusText(status) ==
    CASE status = 200 -> "200 OK"
      [] status = 404 -> "404 Not Found"
      [] OTHER -> "?"

\* httpx.Response.is_success
is_success(status) == 200 <= status /\ status <= 299

\* a status check that lets every status through
RaiseForStatusNever(resp) == None

\* httpx.Response.raise_for_status(): the exception it raises, if any
raise_for_status(resp) ==
    IF is_success(resp.status_code) THEN None
    ELSE Some(Exc("HTTPStatusError",
                  <<"Client error '", StatusText(resp.status_code), "'">>))

---------------------------------------------------------------------------
(* Content extraction, on the decoded body (lines 139-193) *)

Value(v) == [raised |-> FALSE, value |-> v, exc |-> Exc("", <<>>)]
Raised(exc) == [raised |-> TRUE, value |-> <<>>, exc |-> exc]

HasChar(s, c) == \E i \in 1..Len(s) : s[i] = c

DecodeByte(b) == IF b = "#" THEN "?" ELSE b

\* bytes.decode(encoding, errors="replace")
Decode(content) == [i \in 1..Len(content) |-> DecodeByte(content[i])]

IsTextChar(c) == c \notin {"{", "!"}

extract_readable_text(html) ==
    IF HasChar(html, "!")
    THEN Raised(Exc("ParserRejectedMarkup", <<"rejected markup">>))
    ELSE Value(SelectSeq(html, IsTextChar))

parse_html_to_markdown(html, url) ==
    IF HasChar(html, "!")
    THEN Raised(Exc("ParserRejectedMarkup", <<"rejected markup">>))
    ELSE IF HasChar(html, "{")
    THEN Raised(Exc("RecursionError", <<"maximum recursion depth exceeded">>))
    ELSE Value(<<"# ", "No Title", "\n\n">> \o SelectSeq(html, IsTextChar))

---------------------------------------------------------------------------
(* parse_html_to_markdown on the parsed document (lines 161-193).          *)
(* A document is the sequence of its elements in document order, each with *)
(* its depth: the subtree of an element is the run of deeper elements that *)
(* follows it.  An element with a string holds text only.                  *)

Element(tag, id, class, string) ==
    [tag |-> tag, id |-> id, class |-> class, string |-> string]

TitleElement == Element("title", "", "", Some("Doc"))
HeaderElement == Element("header", "", "", None)
ContentElement == Element("div", "mw-content-text", "", None)
PageTitleElement == Element("span", "", "mw-page-title-main", Some("Main"))
ParagraphElement == Element("p", "", "", Some("para"))

Elements ==
    {TitleElement, HeaderElement, ContentElement, PageTitleElement,
     ParagraphElement}

Node(el, depth) == [el |-> el, depth |-> depth]

\* the elements of the subtree rooted at element i, i included
Subtree(doc, i) ==
    {j \in i..Len(doc) : \A k \in (i + 1)..j : doc[k].depth > doc[i].depth}

\* the elements of doc at the indexes of S, in document order
Keep(doc, S) ==
    [k \in 1..Cardinality(S) |->
        doc[CHOOSE i \in S : Cardinality({j \in S : j <= i}) = k]]

\* lines 165-170: `for t in soup(tags): t.decompose()`
decompose(doc, tags) ==
    Keep(doc, {j \in 1..Len(doc) :
                  ~ \E i \in 1..j : doc[i].el.tag \in tags /\ j \in Subtree(doc, i)})

\* soup.find(tag, {"id": id, "class": class}): the first matching element in
\* document order, or None; an empty id or class is not asked for
find(doc, tag, id, class) ==
    LET hits == {i \in 1..Len(doc) :
                    /\ doc[i].el.tag = tag
                    /\ id # "" => doc[i].el.id = id
                    /\ class # "" => doc[i].el.class = class}
    IN  IF hits = {} THEN None
        ELSE Some(CHOOSE i \in hits : \A j \in hits : i <= j)

\* line 162: soup.title
find_title(doc) == find(doc, "title", "", "")

\* line 174
find_body_elm(doc) == find(doc, "div", "mw-content-text", "")

\* line 175
find_title_elm(doc) == find(doc, "span", "", "mw-page-title-main")

\* `.string` as an f-string renders it
StringOf(el) == IF el.string = None THEN "None" ELSE el.string[1]

\* MarkdownConverter().convert_soup: the text of the elements, in order
convert_soup(doc, S) ==
    LET texts == Keep(doc, {i \in S : doc[i].el.string # None})
    IN  [k \in 1..Len(texts) |-> texts[k].el.string[1]]

IsBlank(piece) == piece = "\n\n"

\* str.strip() on a text made of pieces
RECURSIVE StripPieces(_)
StripPieces(text) ==
    IF text # <<>> /\ IsBlank(Head(text)) THEN StripPieces(Tail(text))
    ELSE IF text # <<>> /\ IsBlank(text[Len(text)])
    THEN StripPieces(SubSeq(text, 1, Len(text) - 1))
    ELSE text

WikipediaOrg ==
    <<"w", "i", "k", "i", "p", "e", "d", "i", "a", ".", "o", "r", "g">>

\* lines 169-170
ChromeTags == {"nav", "footer", "aside", "form", "figure", "header"}

\* lines 161-193
markdown_of_soup(doc, url) ==
    LET title == IF find_title(doc) # None
                 THEN StringOf(doc[find_title(doc)[1]].el)
                 ELSE "No Title"
        soup == decompose(decompose(doc, {"script", "style", "noscript"}),
                          ChromeTags)
        whole == convert_soup(soup, 1..Len(soup))
        body_elm == find_body_elm(soup)
        title_elm == find_title_elm(soup)
        webpage_text ==
            IF Contains(WikipediaOrg, url)
            THEN IF body_elm # None
                 THEN LET main_title ==
                              IF title_elm # None
                              THEN StringOf(soup[title_elm[1]].el)
                              ELSE title
                      IN  <<"# ", main_title, "\n\n">>
                              \o convert_soup(soup, Subtree(soup, body_elm[1]))
                 ELSE whole
            ELSE whole
        stripped == StripPieces(webpage_text)
    IN  IF stripped = <<>> \/ Head(stripped) # "# "
        THEN <<"# ", title, "\n\n">> \o stripped
        ELSE stripped

---------------------------------------------------------------------------
(* The fetch unit: fetch_single (lines 196-250) *)

\* FetchResult(url=url, ok=False)
NewFetchResult(url) ==
    [url |-> url, ok |-> FALSE, status_code |-> None, charset |-> None,
     text |-> None, markdown |-> None, error |-> None,
     bytes_downloaded |-> None, elapsed_ms |-> None]

Completed(r) == [result |-> r, exc |-> None]
Failed(r, e) == [result |-> r, exc |-> Some(e)]

\* the status recorded only once it has passed the status check
RecordResponseIfSuccess(r, resp) ==
    IF is_success(resp.status_code)
    THEN [r EXCEPT !.status_code = Some(resp.status_code), !.charset = resp.encoding]
    ELSE r

\* lines 219-220
RecordResponse(r, resp) ==
    [r EXCEPT !.status_code = Some(resp.status_code), !.charset = resp.encoding]

\* line 223: response.headers.get("content-type", "").lower()
ContentType(resp) ==
    Lower(IF resp.content_type = None THEN <<>> ELSE resp.content_type[1])

\* no content type is refused
ContentTypeRefusedNever(content_type, keywords) == FALSE

\* line 224: the condition under which the ValueError is raised
ContentTypeRefused(content_type, keywords) ==
    /\ keywords # <<>>
    /\ ~ \E k \in 1..Len(keywords) : Contains(keywords[k], content_type)

\* Markdown whatever the request asks
ConvertAlways(to_markdown) == TRUE

\* line 235
ConvertRequested(to_markdown) == to_markdown

\* lines 228-229: the body, cut to MAX_BODY_BYTES and decoded
HtmlContent(resp) ==
    LET content == SubSeq(resp.content, 1, Min(Len(resp.content), MAX_BODY_BYTES))
    IN  Decode(content)

\* lines 227-238, after the status and content-type checks
Extract(r, resp, url, to_markdown) ==
    LET r1 == [r EXCEPT !.bytes_downloaded = Some(Len(resp.content))]
        html_content == HtmlContent(resp)
        text == extract_readable_text(html_content)
    IN  IF text.raised THEN Failed(r1, text.exc)
        ELSE LET r2 == [r1 EXCEPT !.text = Some(text.value)] IN
             IF ConvertRequested(to_markdown)
             THEN LET md == parse_html_to_markdown(html_content, url) IN
                  IF md.raised THEN Failed(r2, md.exc)
                  ELSE Completed([r2 EXCEPT !.markdown = Some(md.value),
                                            !.ok = TRUE])
             ELSE Completed([r2 EXCEPT !.ok = TRUE])

\* lines 218-238: the try block, given what client.get ended in
TryBlock(r, url, out, to_markdown, keywords) ==
    IF out.kind = "raise" THEN Failed(r, out.exc)
    ELSE LET r1 == RecordResponse(r, out)
             status == raise_for_status(out)
         IN  IF status # None THEN Failed(r1, status[1])
             ELSE LET content_type == ContentType(out) IN
                  IF ContentTypeRefused(content_type, keywords)
                  THEN Failed(r1, Exc("ValueError",
                              <<"Unsupported content type: ">> \o content_type))
                  ELSE Extract(r1, out, url, to_markdown)

\* a last clause that catches ValueError only
CaughtAsValueError(exc) == exc.type = "ValueError"

\* a first clause that catches every httpx.HTTPError
CaughtAsTimeoutWide(exc) == exc.type \in HTTPErrorClasses

\* the classes the three except clauses catch (lines 239, 242, 245)
CaughtAsTimeout(exc) == exc.type \in TimeoutClasses
CaughtAsHTTPError(exc) == exc.type \in HTTPErrorClasses
CaughtAsException(exc) == exc.type \in ExceptionClasses

\* line 240: f"timeout: {exc}"
TimeoutText(exc) == Some(<<"timeout: ">> \o exc.msg)

\* `str(exc) or None`
ErrorTextOrNone(exc) == IF exc.msg = <<>> THEN None ELSE Some(exc.msg)

\* lines 243 and 246: str(exc)
ErrorText(exc) == Some(exc.msg)

\* lines 239-247: the except clauses; uncaught exceptions propagate
ExceptClauses(r, exc) ==
    IF CaughtAsTimeout(exc)
    THEN [caught |-> TRUE, result |-> [r EXCEPT !.error = TimeoutText(exc)]]
    ELSE IF CaughtAsHTTPError(exc)
    THEN [caught |-> TRUE, result |-> [r EXCEPT !.error = ErrorText(exc)]]
    ELSE IF CaughtAsException(exc)
    THEN [caught |-> TRUE, result |-> [r EXCEPT !.error = ErrorText(exc)]]
    ELSE [caught |-> FALSE, result |-> r]

\* line 249: int((perf_counter() - started) * 1000)
Elapsed(clock, since) == clock - since

\* lines 218-250 as one step: [returned, result]; returned is FALSE when an
\* exception leaves fetch_single
AfterGet(r, since, clock, url, out, to_markdown, keywords) ==
    LET t == TryBlock(r, url, out, to_markdown, keywords)
        h == IF t.exc = None THEN [caught |-> TRUE, result |-> t.result]
             ELSE ExceptClauses(t.result, t.exc[1])
    IN  [returned |-> h.caught,
         result |-> [h.result EXCEPT !.elapsed_ms = Some(Elapsed(clock, since))]]

---------------------------------------------------------------------------
(* The gate: asyncio.Semaphore, as used by `async with semaphore` (line 216) *)

\* a gate that admits everybody
LockedNever(value, ws) == FALSE

\* Semaphore.locked(): no free slot, or somebody is already queued
Locked(value, ws) == value = 0 \/ ws # <<>>

\* the first queued unit whose wake-up has not been scheduled yet
NextWaiting(ws, pcs) ==
    LET waiting == SelectSeq(ws, LAMBDA w : pcs[w] = "waiting")
    IN  IF waiting = <<>> THEN None ELSE Some(Head(waiting))

\* a release that hands the slot to a waiter but never returns it to the gate
SemReleaseKept(value, ws, pcs) == [value |-> value, woken |-> NextWaiting(ws, pcs)]

\* a release that frees the slot and wakes nobody
SemReleaseLost(value, ws, pcs) == [value |-> value + 1, woken |-> None]

\* Semaphore.release(): the slot goes to the first waiter, if there is one
SemRelease(value, ws, pcs) ==
    LET next == NextWaiting(ws, pcs)
    IN  IF next = None THEN [value |-> value + 1, woken |-> None]
        ELSE [value |-> value, woken |-> next]

Without(ws, i) == SelectSeq(ws, LAMBDA w : w # i)

---------------------------------------------------------------------------
(* The handler: fetch_urls (lines 261-313) *)

\* the gate sized by the default, whatever the request asked for
GateSizeDefault(req) == DEFAULT_CONCURRENCY

\* line 269
GateSize(req) == IF req.concurrency = 0 THEN DEFAULT_CONCURRENCY ELSE req.concurrency

\* lines 272-278
Limits(c) ==
    [max_connections |-> Max(MAX_CONNECTIONS, c * 2),
     max_keepalive_connections |-> Max(MAX_KEEPALIVE_CONNECTIONS, c)]

\* lines 279-285
Timeout(req) ==
    [connect |-> Min(CONNECT_TIMEOUT, req.timeout),
     read |-> Min(READ_TIMEOUT, req.timeout),
     write |-> req.timeout,
     pool |-> req.timeout]

\* the values, last task first
GatherReversed(values) ==
    [i \in 1..Len(values) |-> values[Len(values) + 1 - i][1]]

\* line 304: gather returns the tasks' values in the order of the tasks
Gather(values) == [i \in 1..Len(values) |-> values[i][1]]

\* lines 307-312
FetchResponse(rs, c, elapsed) ==
    [total |-> Len(rs), concurrency |-> c, elapsed_ms |-> elapsed, results |-> rs]

\* one task per distinct URL: a repeated URL is fetched once
TaskUrlsDeduplicated(urls) ==
    LET first == {i \in 1..Len(urls) : \A j \in 1..(i - 1) : urls[j] # urls[i]}
    IN  [k \in 1..Cardinality(first) |->
            urls[CHOOSE i \in first : Cardinality({j \in first : j <= i}) = k]]

\* lines 300-303: one task per entry of request.urls, in order
TaskUrls(urls) == urls

Units == 1..Len(upc)

\* lines 263-266: validation fails, HTTPException(422)
Reject ==
    /\ pc = "received"
    /\ ~post_init(payload).ok
    /\ pc' = "rejected"
    /\ http_error' = Some([status_code |-> 422, detail |-> post_init(payload).detail])
    /\ UNCHANGED <<allowed, payload, request, concurrency, sem_value, waiters,
                   limits, client_timeout, client, upc, started, result, got,
                   ret, gets, entered, response, start_time, results, now>>
    /\ UNCHANGED aside

\* lines 263-304: validation succeeds; the gate and the client are made and
\* one task per URL is handed to gather
Launch ==
    /\ pc = "received"
    /\ post_init(payload).ok
    /\ LET req == post_init(payload).request
           c == GateSize(req)
           n == Len(TaskUrls(req.urls))
       IN  /\ request' = Some(req)
           /\ start_time' = now
           /\ concurrency' = c
           /\ sem_value' = c
           /\ waiters' = <<>>
           /\ limits' = Some(Limits(c))
           /\ client_timeout' = Some(Timeout(req))
           /\ client' = "open"
           /\ upc' = [i \in 1..n |-> "created"]
           /\ started' = [i \in 1..n |-> 0]
           /\ result' = [i \in 1..n |-> None]
           /\ got' = [i \in 1..n |-> None]
           /\ ret' = [i \in 1..n |-> None]
           /\ gets' = [i \in 1..n |-> 0]
           /\ entered' = [i \in 1..n |-> 0]
    /\ pc' = "gathering"
    /\ UNCHANGED <<allowed, payload, response, http_error, results, now>>
    /\ UNCHANGED aside

\* lines 214-218: a task's first step, in task order: the result and the
\* timer are made, then the gate is entered or queued at
Start(i) ==
    /\ pc = "gathering"
    /\ upc[i] = "created"
    /\ \A j \in 1..(i - 1) : upc[j] # "created"
    /\ result' = [result EXCEPT ![i] = Some(NewFetchResult(TaskUrls(request[1].urls)[i]))]
    /\ started' = [started EXCEPT ![i] = now]
    /\ IF ~Locked(sem_value, waiters)
       THEN /\ sem_value' = sem_value - 1
            /\ upc' = [upc EXCEPT ![i] = "inflight"]
            /\ gets' = [gets EXCEPT ![i] = @ + 1]
            /\ entered' = [entered EXCEPT ![i] = now]
            /\ UNCHANGED waiters
       ELSE /\ waiters' = Append(waiters, i)
            /\ upc' = [upc EXCEPT ![i] = "waiting"]
            /\ UNCHANGED <<sem_value, gets, entered>>
    /\ UNCHANGED <<allowed, payload, pc, request, concurrency, limits,
                   client_timeout, client, got, ret, response, http_error,
                   start_time, results, now>>
    /\ UNCHANGED aside

\* line 216-218: a woken waiter leaves the queue and issues its GET
Resume(i) ==
    /\ pc = "gathering"
    /\ upc[i] = "woken"
    /\ waiters' = Without(waiters, i)
    /\ gets' = [gets EXCEPT ![i] = @ + 1]
    /\ entered' = [entered EXCEPT ![i] = now]
    /\ LET next == NextWaiting(waiters', upc)
       IN  IF sem_value > 0 /\ next # None
           THEN /\ upc' = [upc EXCEPT ![i] = "inflight", ![next[1]] = "woken"]
                /\ sem_value' = sem_value - 1
           ELSE /\ upc' = [upc EXCEPT ![i] = "inflight"]
                /\ UNCHANGED sem_value
    /\ UNCHANGED <<allowed, payload, pc, request, concurrency, limits,
                   client_timeout, client, started, result, got, ret,
                   response, http_error, start_time, results, now>>
    /\ UNCHANGED aside

\* lines 218-250: the GET ends in `out`; the rest of fetch_single runs
\* without suspending, the gate slot is released and the task returns
Complete(i, out) ==
    /\ pc = "gathering"
    /\ upc[i] = "inflight"
    /\ \A j \in Units : upc[j] # "created"
    /\ LET a == AfterGet(result[i][1], started[i], now,
                         TaskUrls(request[1].urls)[i], out,
                         request[1].to_markdown, allowed)
           rel == SemRelease(sem_value, waiters, upc)
           left == IF a.returned THEN "returned" ELSE "raised"
       IN  /\ got' = [got EXCEPT ![i] = Some(out)]
           /\ result' = [result EXCEPT ![i] = Some(a.result)]
           /\ ret' = [ret EXCEPT ![i] = IF a.returned THEN Some(a.result) ELSE None]
           /\ sem_value' = rel.value
           /\ upc' = IF rel.woken = None
                     THEN [upc EXCEPT ![i] = left]
                     ELSE [upc EXCEPT ![i] = left, ![rel.woken[1]] = "woken"]
    /\ UNCHANGED <<allowed, payload, pc, request, concurrency, waiters, limits,
                   client_timeout, client, started, gets, entered, response,
                   http_error, start_time, results, now>>
    /\ UNCHANGED aside

\* a client that outlives the block it was made for
ClientExitLeftOpen(c) == c

\* line 294: leaving the `async with` block closes the client, on return and
\* on exception alike
ClientExit(c) == "closed"

\* lines 304-305: gather ends when every task has returned, or as soon as a
\* task raised; the client is closed as the `async with` block is left
GatherReturn ==
    /\ pc = "gathering"
    /\ \/ \E i \in Units : upc[i] = "raised"
       \/ \A i \in Units : upc[i] = "returned"
    /\ client' = ClientExit(client)
    /\ IF \E i \in Units : upc[i] = "raised"
       THEN /\ pc' = "failed"
            /\ http_error' = Some([status_code |-> 500, detail |-> "Internal Server Error"])
            /\ UNCHANGED results
       ELSE /\ pc' = "assemble"
            /\ results' = Gather(ret)
            /\ UNCHANGED http_error
    /\ UNCHANGED <<allowed, payload, request, concurrency, sem_value, waiters,
                   limits, client_timeout, upc, started, result, got, ret,
                   gets, entered, response, start_time, now>>
    /\ UNCHANGED aside

\* lines 306-313
Respond ==
    /\ pc = "assemble"
    /\ response' = Some(FetchResponse(results, concurrency, Elapsed(now, start_time)))
    /\ pc' = "done"
    /\ UNCHANGED <<allowed, payload, request, concurrency, sem_value, waiters,
                   limits, client_timeout, client, upc, started, result, got,
                   ret, gets, entered, http_error, start_time, results, now>>
    /\ UNCHANGED aside

---------------------------------------------------------------------------
(* Requests *)

RECURSIVE SeqsOfLen(_, _)
SeqsOfLen(S, n) ==
    IF n = 0 THEN {<<>>}
    ELSE {Append(q, x) : q \in SeqsOfLen(S, n - 1), x \in S}

\* lists of 1..MAX_URLS valid URLs, repeated URLs included; the two URLs
\* are treated alike, so the first one is fixed
ValidUrlLists ==
    UNION {{<<UrlPlain>> \o q : q \in SeqsOfLen({UrlPlain, UrlWiki}, n - 1)} :
              n \in 1..MAX_URLS}

InvalidUrlLists ==
    {<<>>, <<UrlNoScheme>>, <<UrlPlain, UrlNoNetloc>>,
     [i \in 1..(MAX_URLS + 1) |-> UrlPlain]}

Payload(is_list, urls, timeout, conc, md) ==
    [urls_is_list |-> is_list, urls |-> urls, timeout |-> timeout,
     concurrency |-> conc, to_markdown |-> md]

\* batches of every admissible shape, fetched with the default timeout
FetchPayloads ==
    {Payload(TRUE, us, Num(150), c, md) :
        us \in ValidUrlLists,
        c \in {None, Some(Num(1)), Some(Num(MAX_CONCURRENCY))},
        md \in BOOLEAN}

\* requests around the limits of validation
EdgePayloads ==
    {Payload(TRUE, us, t, c, FALSE) :
        us \in InvalidUrlLists \cup {<<UrlPlain>>},
        t \in {Num(5), Num(10), Num(600), Num(610), NotANumber},
        c \in {None, Some(NotANumber)}
              \cup {Some(Num(k)) : k \in 0..(MAX_CONCURRENCY + 1)}}
    \cup {Payload(FALSE, <<>>, Num(150), None, FALSE)}

Payloads == FetchPayloads \cup EdgePayloads

\* fetch_urls has not been entered yet
Fresh ==
    /\ pc = "received"
    /\ request = None
    /\ concurrency = 0
    /\ sem_value = 0
    /\ waiters = <<>>
    /\ limits = None
    /\ client_timeout = None
    /\ client = "none"
    /\ upc = <<>>
    /\ started = <<>>
    /\ result = <<>>
    /\ got = <<>>
    /\ ret = <<>>
    /\ gets = <<>>
    /\ entered = <<>>
    /\ response = None
    /\ http_error = None
    /\ start_time = 0
    /\ results = <<>>
    /\ now = 0

\* no document is being converted
NoDocument ==
    /\ document = <<>>
    /\ page_url = <<>>
    /\ markdown = None

\* no second call of fetch_urls is under way
NoBatches ==
    /\ batches = <<>>
    /\ gates = <<>>

Init ==
    /\ allowed \in {ParseKeywords(e) : e \in EnvKeywordValues}
    /\ payload \in Payloads
    /\ Fresh
    /\ NoDocument
    /\ NoBatches

Next ==
    \/ Reject
    \/ Launch
    \/ \E i \in Units : Start(i)
    \/ \E i \in Units : Resume(i)
    \/ \E i \in Units, out \in Outcomes : Complete(i, out)
    \/ GatherReturn
    \/ Respond

Spec == Init /\ [][Next]_vars

\* the furthest the clock of the timed specification runs, in milliseconds
MaxClock == 2

\* perf_counter() advances
Tick ==
    /\ now < MaxClock
    /\ now' = now + 1
    /\ UNCHANGED <<allowed, payload, pc, request, concurrency, sem_value,
                   waiters, limits, client_timeout, client, upc, started,
                   result, got, ret, gets, entered, response, http_error,
                   start_time, results>>
    /\ UNCHANGED aside

\* the requests the timed specification follows: two URLs behind a gate of
\* one or of two, and a request that validation refuses
TimedPayloads ==
    {Payload(TRUE, <<UrlPlain, UrlWiki>>, Num(150), Some(Num(1)), FALSE),
     Payload(TRUE, <<UrlPlain, UrlWiki>>, Num(150), None, FALSE),
     Payload(TRUE, <<>>, Num(10), None, FALSE)}

InitTimed ==
    /\ Init
    /\ payload \in TimedPayloads
    /\ allowed = ParseKeywords(EnvDefaultKeywords)

NextTimed == Next \/ Tick

\* Spec with time passing between the steps
SpecTimed == InitTimed /\ [][NextTimed]_vars

---------------------------------------------------------------------------
(* parse_html_to_markdown applied to documents of a few elements *)

\* the most elements a document has
MaxNodes == 4

\* the documents of n elements: an element sits at depth 0, beside the
\* element before it or one of that element's ancestors, or, when the element
\* before it is not a text-only element, inside it
NextDepths(q) ==
    IF q = <<>> THEN {0}
    ELSE 0..(q[Len(q)].depth + (IF q[Len(q)].el.string = None THEN 1 ELSE 0))

RECURSIVE DocumentsOfLen(_)
DocumentsOfLen(n) ==
    IF n = 0 THEN {<<>>}
    ELSE UNION {{Append(q, Node(el, d)) : el \in Elements, d \in NextDepths(q)} :
                   q \in DocumentsOfLen(n - 1)}

\* the documents of 1..max elements
Documents(max) == UNION {DocumentsOfLen(n) : n \in 1..max}

PageUrlPlain ==
    <<"h", "t", "t", "p", ":", "/", "/", "a", ".", "t", "e", "s", "t",
    "/", "x">>

PageUrlWiki ==
    <<"h", "t", "t", "p", "s", ":", "/", "/", "e", "n", ".", "w", "i",
    "k", "i", "p", "e", "d", "i", "a", ".", "o", "r", "g", "/", "w", "i",
    "k", "i", "/", "T">>

PageUrls == {PageUrlPlain, PageUrlWiki}

InitMarkdown ==
    /\ allowed = ParseKeywords(EnvDefaultKeywords)
    /\ payload = Payload(TRUE, <<UrlWiki>>, Num(150), None, TRUE)
    /\ Fresh
    /\ document \in Documents(MaxNodes)
    /\ page_url \in PageUrls
    /\ markdown = None
    /\ NoBatches

\* lines 151-193: one call of parse_html_to_markdown(html_content, url)
Convert ==
    /\ document # <<>>
    /\ markdown = None
    /\ markdown' = Some(markdown_of_soup(document, page_url))
    /\ UNCHANGED <<fetch_vars, document, page_url, pair_vars>>

NextMarkdown == Convert

SpecMarkdown == InitMarkdown /\ [][NextMarkdown]_vars

---------------------------------------------------------------------------
(* Two requests handled concurrently by one process: each call of          *)
(* fetch_urls (lines 261-313) has its own locals, kept per batch.          *)

Batches == {1, 2}

\* the locals of one call of fetch_urls, before the call has started
Batch(p) ==
    [payload |-> p, pc |-> "received", request |-> None, concurrency |-> 0,
     semaphore |-> 0, client |-> "none", upc |-> <<>>, ret |-> <<>>,
     results |-> <<>>, response |-> None]

\* one semaphore made at import and used by every call
SemaphoreShared(b) == 1

\* line 270: every call makes its own asyncio.Semaphore
SemaphoreOf(b) == b

UnitsOf(b) == 1..Len(batches[b].upc)

\* the fetch units of both batches, as <<batch, index>>
AllUnits == UNION {{<<b, i>> : i \in UnitsOf(b)} : b \in Batches}

UnitPcs == [w \in AllUnits |-> batches[w[1]].upc[w[2]]]

SetPc(bs, w, p) == [bs EXCEPT ![w[1]].upc[w[2]] = p]

\* lines 263-304 of the call for batch b
BatchLaunch(b) ==
    /\ batches[b].pc = "received"
    /\ post_init(batches[b].payload).ok
    /\ LET req == post_init(batches[b].payload).request
           c == GateSize(req)
           n == Len(TaskUrls(req.urls))
           g == SemaphoreOf(b)
       IN  /\ gates' = [gates EXCEPT ![g] = [value |-> c, waiters |-> <<>>]]
           /\ batches' = [batches EXCEPT ![b] =
                  [@ EXCEPT !.pc = "gathering",
                            !.request = Some(req),
                            !.concurrency = c,
                            !.semaphore = g,
                            !.client = "open",
                            !.upc = [i \in 1..n |-> "created"],
                            !.ret = [i \in 1..n |-> None]]]
    /\ UNCHANGED <<fetch_vars, soup_vars>>

\* lines 214-218 for unit i of batch b
BatchStart(b, i) ==
    /\ batches[b].pc = "gathering"
    /\ batches[b].upc[i] = "created"
    /\ \A j \in 1..(i - 1) : batches[b].upc[j] # "created"
    /\ LET g == batches[b].semaphore
       IN  IF ~Locked(gates[g].value, gates[g].waiters)
           THEN /\ gates' = [gates EXCEPT ![g].value = @ - 1]
                /\ batches' = SetPc(batches, <<b, i>>, "inflight")
           ELSE /\ gates' = [gates EXCEPT ![g].waiters = Append(@, <<b, i>>)]
                /\ batches' = SetPc(batches, <<b, i>>, "waiting")
    /\ UNCHANGED <<fetch_vars, soup_vars>>

\* lines 216-218: a woken unit of batch b leaves the queue and issues its GET
BatchResume(b, i) ==
    /\ batches[b].pc = "gathering"
    /\ batches[b].upc[i] = "woken"
    /\ LET g == batches[b].semaphore
           ws == Without(gates[g].waiters, <<b, i>>)
           next == NextWaiting(ws, UnitPcs)
       IN  IF gates[g].value > 0 /\ next # None
           THEN /\ gates' = [gates EXCEPT ![g] =
                                [value |-> @.value - 1, waiters |-> ws]]
                /\ batches' = SetPc(SetPc(batches, <<b, i>>, "inflight"),
                                    next[1], "woken")
           ELSE /\ gates' = [gates EXCEPT ![g].waiters = ws]
                /\ batches' = SetPc(batches, <<b, i>>, "inflight")
    /\ UNCHANGED <<fetch_vars, soup_vars>>

\* lines 218-250 for unit i of batch b, whose GET ends in `out`
BatchComplete(b, i, out) ==
    /\ batches[b].pc = "gathering"
    /\ batches[b].upc[i] = "inflight"
    /\ \A j \in UnitsOf(b) : batches[b].upc[j] # "created"
    /\ LET req == batches[b].request[1]
           url == TaskUrls(req.urls)[i]
           a == AfterGet(NewFetchResult(url), now, now, url, out,
                         req.to_markdown, allowed)
           g == batches[b].semaphore
           rel == SemRelease(gates[g].value, gates[g].waiters, UnitPcs)
           done == [batches EXCEPT
                       ![b].upc[i] = IF a.returned THEN "returned" ELSE "raised",
                       ![b].ret[i] = IF a.returned THEN Some(a.result) ELSE None]
       IN  /\ gates' = [gates EXCEPT ![g].value = rel.value]
           /\ batches' = IF rel.woken = None THEN done
                         ELSE SetPc(done, rel.woken[1], "woken")
    /\ UNCHANGED <<fetch_vars, soup_vars>>

\* lines 304-305 of the call for batch b
BatchGatherReturn(b) ==
    /\ batches[b].pc = "gathering"
    /\ \/ \E i \in UnitsOf(b) : batches[b].upc[i] = "raised"
       \/ \A i \in UnitsOf(b) : batches[b].upc[i] = "returned"
    /\ batches' = [batches EXCEPT ![b] =
           IF \E i \in UnitsOf(b) : batches[b].upc[i] = "raised"
           THEN [@ EXCEPT !.pc = "failed", !.client = ClientExit(@)]
           ELSE [@ EXCEPT !.pc = "assemble", !.client = ClientExit(@),
                          !.results = Gather(batches[b].ret)]]
    /\ UNCHANGED <<fetch_vars, soup_vars, gates>>

\* lines 306-313 of the call for batch b
BatchRespond(b) ==
    /\ batches[b].pc = "assemble"
    /\ batches' = [batches EXCEPT ![b] =
           [@ EXCEPT !.pc = "done",
                     !.response = Some(FetchResponse(batches[b].results,
                                                     batches[b].concurrency,
                                                     Elapsed(now, now)))]]
    /\ UNCHANGED <<fetch_vars, soup_vars, gates>>

\* what the GETs of the two batches end in
PairOutcomes ==
    {Resp(200, Some(CtHtml), BodyPlain), Raises(Exc("ConnectTimeout", <<>>))}

\* the first request: two URLs behind a gate of one
FirstPayloads == {Payload(TRUE, <<UrlPlain, UrlPlain>>, Num(150), Some(Num(1)), FALSE)}

\* the second request: one or two other URLs behind the default gate
SecondPayloads ==
    {Payload(TRUE, <<UrlWiki, UrlWiki>>, Num(150), None, FALSE),
     Payload(TRUE, <<UrlWiki>>, Num(150), None, FALSE)}

InitPair ==
    /\ allowed = ParseKeywords(EnvDefaultKeywords)
    /\ payload = Payload(TRUE, <<UrlPlain>>, Num(150), None, FALSE)
    /\ Fresh
    /\ NoDocument
    /\ batches \in {[b \in Batches |-> Batch(IF b = 1 THEN p1 ELSE p2)] :
                        p1 \in FirstPayloads, p2 \in SecondPayloads}
    /\ gates = [g \in Batches |-> [value |-> 0, waiters |-> <<>>]]

NextPair ==
    \/ \E b \in Batches : BatchLaunch(b)
    \/ \E b \in Batches : \E i \in UnitsOf(b) : BatchStart(b, i)
    \/ \E b \in Batches : \E i \in UnitsOf(b) : BatchResume(b, i)
    \/ \E b \in Batches : \E i \in UnitsOf(b) :
          \E out \in PairOutcomes : BatchComplete(b, i, out)
    \/ \E b \in Batches : BatchGatherReturn(b)
    \/ \E b \in Batches : BatchRespond(b)

SpecPair == InitPair /\ [][NextPair]_vars

---------------------------------------------------------------------------
\* the event loop runs every task that is ready, every GET that was issued
\* ends, and the semaphore wakes its waiters in turn
Fairness ==
    /\ WF_vars(Reject)
    /\ WF_vars(Launch)
    /\ \A i \in 1..MAX_URLS :
          /\ WF_vars(i \in Units /\ Start(i))
          /\ WF_vars(i \in Units /\ Resume(i))
          /\ WF_vars(i \in Units /\ \E out \in Outcomes : Complete(i, out))
    /\ WF_vars(GatherReturn)
    /\ WF_vars(Respond)

FairSpec == Spec /\ Fairness

---------------------------------------------------------------------------
(* Properties *)

ReturnedUnits == {i \in Units : ret[i] # None}
InFlight == {i \in Units : upc[i] = "inflight"}

\* C1: the response of a validated request has total = len(results) =
\* len(request.urls), and results[i].url = request.urls[i] at every index,
\* repeated URLs included, whatever the order the units completed in.
C1_OrderPreserved ==
    response # None =>
        LET resp == response[1]
            urls == request[1].urls
        IN  /\ resp.total = Len(resp.results)
            /\ Len(resp.results) = Len(urls)
            /\ \A i \in 1..Len(urls) : resp.results[i].url = urls[i]

\* a response for three URLs, one of them repeated, whose first unit failed
\* and whose last unit succeeded
C1_Witness ==
    /\ response # None
    /\ request[1].urls = <<UrlPlain, UrlWiki, UrlPlain>>
    /\ ~response[1].results[1].ok
    /\ response[1].results[3].ok

\* C2: at no time are more than c (the gate size) units between the issue
\* of their GET and their leaving the gated section.
C2_GateBound == Cardinality(InFlight) <= concurrency

\* the gate is full with a unit that was queued and admitted after another
\* one left, while a third is still queued
C2_Witness ==
    /\ concurrency = 1
    /\ upc = <<"returned", "inflight", "waiting">>

\* C3: once a batch is launched, every unit eventually returns a result
\* and the response is eventually produced with a result for every URL,
\* however many of the units fail or time out.
C3_BatchCompletes ==
    (pc = "gathering") ~>
        (/\ pc = "done"
         /\ response # None
         /\ \A i \in Units : ret[i] # None
         /\ Len(response[1].results) = Len(request[1].urls))

\* a response for a three-URL batch behind a gate of one, in which every
\* unit failed: a timeout, a transport error and an HTTP error status
C3_Witness ==
    /\ pc = "done"
    /\ concurrency = 1
    /\ Len(response[1].results) = 3
    /\ got[1][1].kind = "raise" /\ got[1][1].exc.type = "ReadTimeout"
    /\ got[2][1].kind = "raise" /\ got[2][1].exc.type = "ConnectError"
    /\ got[3][1].kind = "response" /\ got[3][1].status_code = 404
    /\ \A i \in 1..3 : ~response[1].results[i].ok

\* what the GET of unit i ended in, and what the unit returned
GotOf(i) == got[i][1]
RetOf(i) == ret[i][1]

GotTimeout(i) == GotOf(i).kind = "raise" /\ GotOf(i).exc.type \in TimeoutClasses
GotTransportError(i) ==
    GotOf(i).kind = "raise" /\ GotOf(i).exc.type \notin TimeoutClasses
GotResponse(i) == GotOf(i).kind = "response"
GotErrorStatus(i) == GotResponse(i) /\ ~is_success(GotOf(i).status_code)

\* the response's content type holds none of the configured keywords
NoKeywordMatches(i) ==
    ~ \E k \in 1..Len(allowed) : Contains(allowed[k], ContentType(GotOf(i)))

\* the body makes text extraction, or the Markdown conversion asked for, raise
ExtractionRaises(i) ==
    \/ extract_readable_text(HtmlContent(GotOf(i))).raised
    \/ /\ request[1].to_markdown
       /\ parse_html_to_markdown(HtmlContent(GotOf(i)), request[1].urls[i]).raised

StartsWith(text, piece) == text # <<>> /\ Head(text) = piece

\* C4: no exception leaves a fetch unit. Whatever its GET ended in, the unit
\* returns a FetchResult; it has ok = false after a timeout, another
\* transport error, an HTTP error status, a refused content type or an
\* exception during extraction or Markdown conversion; and a validated
\* request never ends in a request-level failure.
C4_NeverRaises ==
    /\ pc # "failed"
    /\ request # None => http_error = None
    /\ \A i \in Units :
          /\ upc[i] # "raised"
          /\ got[i] # None =>
                /\ ret[i] # None
                /\ (\/ GotTimeout(i)
                    \/ GotTransportError(i)
                    \/ GotErrorStatus(i)
                    \/ GotResponse(i) /\ allowed # <<>> /\ NoKeywordMatches(i)
                    \/ GotResponse(i) /\ ExtractionRaises(i))
                   => ~RetOf(i).ok

\* a response whose three units failed on rejected markup, on a failing
\* Markdown conversion and on a refused content type
C4_Witness ==
    /\ pc = "done"
    /\ Len(upc) = 3
    /\ GotOf(1).content = BodyRejected /\ is_success(GotOf(1).status_code)
    /\ GotOf(2).content = BodyDeep /\ ExtractionRaises(2)
    /\ GotOf(3).content_type = Some(CtPdf) /\ is_success(GotOf(3).status_code)
    /\ \A i \in 1..3 : ~RetOf(i).ok

\* C5: a returned FetchResult carries an error exactly when ok is false.
C5_ErrorIffNotOk ==
    \A i \in ReturnedUnits : (RetOf(i).error # None) <=> ~RetOf(i).ok

\* a unit failed on an exception with an empty message, another succeeded
C5_Witness ==
    /\ \E i \in ReturnedUnits : GotTransportError(i) /\ RetOf(i).error = Some(<<>>)
    /\ \E i \in ReturnedUnits : RetOf(i).ok /\ RetOf(i).error = None

\* C6: a returned FetchResult carries text only when ok is true, also when
\* the failure happens in the Markdown conversion, after text extraction.
C6_TextOnlyIfOk ==
    \A i \in ReturnedUnits : RetOf(i).text # None => RetOf(i).ok

\* C7: a returned FetchResult carries markdown only when ok is true and the
\* request asked for Markdown; without to_markdown it is always null.
C7_MarkdownOnlyIfRequested ==
    \A i \in ReturnedUnits :
        RetOf(i).markdown # None => RetOf(i).ok /\ request[1].to_markdown

\* a batch without to_markdown in which a unit succeeded on the body whose
\* Markdown conversion would fail
C7_Witness ==
    /\ request # None /\ ~request[1].to_markdown
    /\ \E i \in ReturnedUnits :
          /\ GotResponse(i) /\ GotOf(i).content = BodyDeep
          /\ RetOf(i).ok /\ RetOf(i).text # None /\ RetOf(i).markdown = None

\* C8 as claimed: ok = true only if the status was a success, the
\* lower-cased content type held at least one keyword of the allow-list, and
\* extraction raised nothing; for every allow-list.
C8_OkOnlyIfKeywordMatched ==
    \A i \in ReturnedUnits :
        RetOf(i).ok =>
            /\ GotResponse(i) /\ is_success(GotOf(i).status_code)
            /\ ~NoKeywordMatches(i)
            /\ ~ExtractionRaises(i)

\* C8, amended: ok = true only if the status was a success, the allow-list
\* is empty or the lower-cased content type held one of its keywords, and
\* extraction raised nothing.
C8_OkOnlyIfAllowed ==
    \A i \in ReturnedUnits :
        RetOf(i).ok =>
            /\ GotResponse(i) /\ is_success(GotOf(i).status_code)
            /\ allowed = <<>> \/ ~NoKeywordMatches(i)
            /\ ~ExtractionRaises(i)

\* under the default allow-list a unit succeeded on "Text/HTML" while one
\* without a content-type header and one with application/pdf failed
C8_Witness ==
    /\ allowed = ParseKeywords(EnvDefaultKeywords)
    /\ \E i \in ReturnedUnits : GotOf(i).content_type = Some(CtHtml) /\ RetOf(i).ok
    /\ \E i \in ReturnedUnits :
          /\ GotResponse(i) /\ GotOf(i).content_type = None
          /\ is_success(GotOf(i).status_code) /\ ~RetOf(i).ok
    /\ \E i \in ReturnedUnits :
          /\ GotOf(i).content_type = Some(CtPdf)
          /\ is_success(GotOf(i).status_code) /\ ~RetOf(i).ok

\* C9: a returned FetchResult has the response's status_code whenever the
\* GET returned a response, whatever failed afterwards, and has none only
\* when the GET raised.
C9_StatusRecorded ==
    \A i \in ReturnedUnits :
        IF GotResponse(i)
        THEN RetOf(i).status_code = Some(GotOf(i).status_code)
        ELSE RetOf(i).status_code = None

\* failures after a response (error status, refused content type) with the
\* status kept, beside a unit whose GET raised
C9_Witness ==
    /\ \E i \in ReturnedUnits :
          GotErrorStatus(i) /\ RetOf(i).status_code = Some(404) /\ ~RetOf(i).ok
    /\ \E i \in ReturnedUnits :
          /\ GotResponse(i) /\ ~RetOf(i).ok
          /\ StartsWith(RetOf(i).error[1], "Unsupported content type: ")
          /\ RetOf(i).status_code = Some(200)
    /\ \E i \in ReturnedUnits : ~GotResponse(i) /\ RetOf(i).status_code = None

\* C10: a response with an error status is reported with the HTTP status
\* error as cause, whatever its content type, and an unsupported-content-type
\* error is reported only for a response with a success status.
C10_StatusBeforeContentType ==
    \A i \in ReturnedUnits :
        /\ GotErrorStatus(i) =>
              /\ RetOf(i).error # None
              /\ StartsWith(RetOf(i).error[1], "Client error '")
        /\ (/\ RetOf(i).error # None
            /\ StartsWith(RetOf(i).error[1], "Unsupported content type: "))
           => GotResponse(i) /\ is_success(GotOf(i).status_code)

\* a 404 with a content type the allow-list refuses, reported as the HTTP
\* error, beside a 200 refused for its content type
C10_Witness ==
    /\ \E i \in ReturnedUnits :
          /\ GotErrorStatus(i) /\ allowed # <<>> /\ NoKeywordMatches(i)
          /\ StartsWith(RetOf(i).error[1], "Client error '")
    /\ \E i \in ReturnedUnits :
          /\ GotResponse(i) /\ is_success(GotOf(i).status_code)
          /\ StartsWith(RetOf(i).error[1], "Unsupported content type: ")

\* what the request asked for, or the default (lines 102-108)
RequestedConcurrency ==
    IF payload.concurrency = None THEN DEFAULT_CONCURRENCY
    ELSE payload.concurrency[1].value

\* the units that own a gate slot: admitted and not yet out of the gate
Admitted == {i \in Units : upc[i] \in {"inflight", "woken"}}

\* C11: the effective concurrency c of a validated request is
\* min(requested or default, len(urls), MAX_CONCURRENCY), so that
\* 1 <= c <= min(len(urls), MAX_CONCURRENCY); the gate is made with exactly c
\* slots (free slots plus owned slots is c at all times) and the response
\* reports c in its field concurrency.
C11_EffectiveConcurrency ==
    request # None =>
        LET n == Len(payload.urls)
            c == Min(Min(RequestedConcurrency, n), MAX_CONCURRENCY)
        IN  /\ concurrency = c
            /\ request[1].concurrency = c
            /\ 1 <= c /\ c <= Min(n, MAX_CONCURRENCY)
            /\ sem_value + Cardinality(Admitted) = c
            /\ (\A i \in Units : upc[i] = "created") => sem_value = c
            /\ response # None => response[1].concurrency = c

\* a response whose concurrency was cut down from the requested
\* MAX_CONCURRENCY to the two URLs of the batch
C11_Witness ==
    /\ response # None
    /\ payload.concurrency = Some(Num(MAX_CONCURRENCY))
    /\ Len(payload.urls) = 2
    /\ response[1].concurrency = 2
    /\ sem_value = 2

\* the four conditions of an acceptable request, read off the payload
Acceptable ==
    /\ payload.urls_is_list
    /\ 1 <= Len(payload.urls) /\ Len(payload.urls) <= MAX_URLS
    /\ \A i \in 1..Len(payload.urls) :
          /\ urlparse(payload.urls[i]).scheme # ""
          /\ urlparse(payload.urls[i]).netloc # ""
    /\ payload.timeout.converts
    /\ 10 <= payload.timeout.value /\ payload.timeout.value <= 600
    /\ \/ payload.concurrency = None
       \/ /\ payload.concurrency[1].converts
          /\ 1 <= payload.concurrency[1].value
          /\ payload.concurrency[1].value <= MAX_CONCURRENCY

\* C12: validation accepts a request iff 1 <= len(urls) <= MAX_URLS, every
\* URL has a non-empty scheme and authority, 1.0 <= timeout <= 60.0 (both ends
\* accepted, 0.5 and 61 refused) and concurrency is absent or within
\* [1, MAX_CONCURRENCY]; a refused request ends in a 422 error with no fetch
\* unit launched, no GET issued and no transport client created.
C12_ValidationGate ==
    /\ pc # "received" => (pc = "rejected" <=> ~Acceptable)
    /\ request # None <=> (pc # "received" /\ Acceptable)
    /\ pc = "rejected" =>
          /\ http_error # None /\ http_error[1].status_code = 422
          /\ upc = <<>> /\ gets = <<>>
          /\ client = "none" /\ limits = None /\ client_timeout = None
          /\ response = None
    /\ (upc # <<>> \/ client # "none") => Acceptable

\* a single valid URL refused for its timeout of 61 seconds
C12_Witness ==
    /\ pc = "rejected"
    /\ payload.urls = <<UrlPlain>>
    /\ payload.timeout = Num(610)
    /\ payload.concurrency = Some(Num(MAX_CONCURRENCY))

\* C13: the pool sizes handed to the transport client never exceed the
\* configured ceilings: max_connections <= MAX_CONNECTIONS and
\* max_keepalive_connections <= MAX_KEEPALIVE_CONNECTIONS, for every admissible
\* concurrency up to MAX_CONCURRENCY.
C13_PoolWithinCeilings ==
    limits # None =>
        /\ limits[1].max_connections <= MAX_CONNECTIONS
        /\ limits[1].max_keepalive_connections <= MAX_KEEPALIVE_CONNECTIONS

\* C14: every index of request.urls gets exactly one FetchResult and exactly
\* one GET: a unit has issued one GET once it is past the gate and none
\* before, no unit ever issues a second one (not after a failure or a timeout
\* either), and equal URLs at different positions each have their own unit,
\* their own GET and their own result.
C14_OneGetPerIndex ==
    request # None =>
        LET urls == request[1].urls
        IN  /\ Units = 1..Len(urls)
            /\ \A i \in Units :
                  /\ gets[i] <= 1
                  /\ gets[i] = 1 <=> upc[i] \in {"inflight", "returned", "raised"}
                  /\ result[i] # None => result[i][1].url = urls[i]
            /\ pc \in {"assemble", "done"} =>
                  /\ \A i \in 1..Len(urls) : gets[i] = 1 /\ ret[i] # None
                  /\ Len(results) = Len(urls)

\* a finished batch of the same URL twice: the first GET timed out, the
\* second one succeeded, and each was issued once
C14_Witness ==
    /\ pc = "done"
    /\ request[1].urls = <<UrlPlain, UrlPlain>>
    /\ got[1] = Some(Raises(Exc("ReadTimeout", <<"timed out">>)))
    /\ ret[2][1].ok
    /\ gets = <<1, 1>>

\* the units that have left the gated section, by return or by exception
Left == {i \in Units : upc[i] \in {"returned", "raised"}}

\* C16: a unit's gate slot is released on every exit path. The slots taken
\* from the gate (concurrency - sem_value) are at all times exactly the slots
\* of the units admitted to the gated section and not yet out of it, so each
\* unit acquires once and releases once: a unit that has left, whatever its
\* GET ended in, owns no slot and waits for none. When gather has returned
\* and when the response is produced, all c slots are free.
C16_SlotsBalanced ==
    request # None =>
        /\ 0 <= sem_value /\ sem_value <= concurrency
        /\ concurrency - sem_value = Cardinality(Admitted)
        /\ \A i \in Left : \A k \in 1..Len(waiters) : waiters[k] # i
        /\ \A i \in Units : upc[i] = "waiting" => \E k \in 1..Len(waiters) : waiters[k] = i
        /\ pc \in {"assemble", "done", "failed"} =>
              /\ sem_value = concurrency
              /\ waiters = <<>>
        /\ response # None => sem_value = concurrency

\* a response of three units behind a gate of one, the GETs having ended in
\* a timeout, an error status and a success: every slot is free again
C16_Witness ==
    /\ response # None
    /\ concurrency = 1
    /\ Len(upc) = 3
    /\ GotTimeout(1)
    /\ GotErrorStatus(2)
    /\ ret[3][1].ok
    /\ sem_value = 1

\* the client is open while units run, and closed once gather is over
ClientLifetime ==
    /\ client = "none" <=> pc \in {"received", "rejected"}
    /\ client = "open" <=> pc = "gathering"
    /\ \A i \in Units : gets[i] > 0 => client # "none"
    /\ client = "closed" => \A i \in Units : upc[i] = "returned" /\ ret[i] # None
    /\ pc = "assemble" => client = "closed"
    /\ response # None => client = "closed"

\* the client is opened once and closed once, and GETs go to an open client
ClientStep ==
    /\ client = "open" => client' \in {"open", "closed"}
    /\ client = "closed" => client' = "closed"
    /\ \A i \in Units : gets'[i] > gets[i] => client = "open" /\ client' = "open"

\* C18: the transport client of a batch is opened once, before any unit
\* issues a GET, and closed exactly once, only after every unit of the batch
\* has returned; the response is assembled only after the client is closed;
\* no unit issues a request on a closed client; and the client is closed also
\* when some or all of the fetches failed.
C18_ClientScoped == [](ClientLifetime) /\ [][ClientStep]_vars

\* a response whose three fetches all failed, the client being closed
C18_Witness ==
    /\ response # None
    /\ Len(upc) = 3
    /\ \A i \in Units : ~ret[i][1].ok
    /\ client = "closed"

ErrorOf(i) == RetOf(i).error

\* C19: a GET that ended in a timeout yields a failure result whose error
\* starts with "timeout: ", and the result of a unit that failed for any other
\* reason (another transport error, an error status, a refused content type,
\* an exception during extraction or conversion) never carries that prefix.
C19_TimeoutMarked ==
    \A i \in ReturnedUnits :
        /\ GotTimeout(i) =>
              /\ ~RetOf(i).ok
              /\ ErrorOf(i) # None
              /\ StartsWith(ErrorOf(i)[1], "timeout: ")
              /\ ErrorOf(i)[1] = <<"timeout: ">> \o GotOf(i).exc.msg
        /\ ~GotTimeout(i) =>
              \/ ErrorOf(i) = None
              \/ ~StartsWith(ErrorOf(i)[1], "timeout: ")

\* a response with a timed-out unit, marked, next to a unit whose connection
\* failed, unmarked
C19_Witness ==
    /\ response # None
    /\ Len(upc) = 2
    /\ GotTimeout(1)
    /\ StartsWith(ErrorOf(1)[1], "timeout: ")
    /\ GotTransportError(2)
    /\ ErrorOf(2) = Some(<<>>)

\* C17: a unit's timer is started once the unit has its gate slot, so that
\* the timer reads the moment the unit entered the gated section and
\* elapsed_ms covers the gated work only, never the wait for a slot; and
\* elapsed_ms is recorded whatever the outcome.
C17_TimerAfterGate ==
    /\ \A i \in Units : gets[i] > 0 => started[i] = entered[i]
    /\ \A i \in ReturnedUnits : RetOf(i).elapsed_ms # None

\* the title of the document as given, or "No Title"
DocumentTitle ==
    IF find_title(document) = None THEN "No Title"
    ELSE StringOf(document[find_title(document)[1]].el)

\* the elements of the subtree of element i that are not inside chrome
\* within that subtree
ReadableSubtree(i) ==
    {j \in Subtree(document, i) :
        ~ \E k \in i..j : /\ document[k].el.tag \in ChromeTags
                          /\ j \in Subtree(document, k)}

\* C15: converting, for a URL containing "wikipedia.org", a document that
\* holds a div with id mw-content-text yields only that container's subtree,
\* under a level-1 heading whose text is that of the span with class
\* mw-page-title-main whenever the document as given holds one (the document
\* title only when it holds none), wherever the two elements sit, inside
\* header, nav, aside, form, figure or footer elements included.
C15_WikipediaSubtree ==
    ( /\ markdown # None
      /\ Contains(WikipediaOrg, page_url)
      /\ find_body_elm(document) # None ) =>
        LET body_elm == find_body_elm(document)[1]
            title_elm == find_title_elm(document)
            heading == IF title_elm = None THEN DocumentTitle
                       ELSE StringOf(document[title_elm[1]].el)
        IN  markdown[1] =
                StripPieces(<<"# ", heading, "\n\n">>
                                \o convert_soup(document, ReadableSubtree(body_elm)))

\* the units of batch b that own a slot of a gate
AdmittedOf(b) == {i \in UnitsOf(b) : batches[b].upc[i] \in {"inflight", "woken"}}
InFlightOf(b) == {i \in UnitsOf(b) : batches[b].upc[i] = "inflight"}

\* C20: two requests handled concurrently use independent gates, clients and
\* result lists. Every slot taken from a batch's gate is owned by a unit of
\* that batch and only units of that batch queue at it, so that no unit
\* waits on or consumes a slot of the other batch's gate; the in-flight count
\* of a batch never exceeds its own c; a batch's client is closed by its own
\* gather only; and each response holds exactly the results of its own URLs,
\* in order.
C20_BatchesIndependent ==
    \A b \in Batches :
        LET B == batches[b]
        IN  /\ Cardinality(InFlightOf(b)) <= B.concurrency
            /\ B.concurrency - gates[b].value = Cardinality(AdmittedOf(b))
            /\ \A k \in 1..Len(gates[b].waiters) : gates[b].waiters[k][1] = b
            /\ \A i \in UnitsOf(b) :
                  B.upc[i] \in {"waiting", "woken"} =>
                      \E k \in 1..Len(gates[b].waiters) : gates[b].waiters[k] = <<b, i>>
            /\ B.client = "open" <=> B.pc = "gathering"
            /\ \A i \in UnitsOf(b) :
                  B.ret[i] # None => B.ret[i][1].url = B.request[1].urls[i]
            /\ B.response # None =>
                  /\ B.response[1].total = Len(B.request[1].urls)
                  /\ B.response[1].concurrency = B.concurrency
                  /\ Len(B.response[1].results) = Len(B.request[1].urls)
                  /\ \A i \in 1..Len(B.request[1].urls) :
                        B.response[1].results[i] = B.ret[i][1]

\* both gates full at once: one unit of the first batch in flight with the
\* other queued behind it, while the two units of the second batch are in
\* flight, three fetches in all
C20_Witness ==
    /\ batches[1].concurrency = 1
    /\ batches[1].upc = <<"inflight", "waiting">>
    /\ batches[2].concurrency = 2
    /\ batches[2].upc = <<"inflight", "inflight">>
    /\ gates[1].value = 0
    /\ gates[2].value = 0

===========================================================================
